---- MODULE Spec2Model ----
(***************************************************************************)
(* The mterp (ARM) interpreter scaffolding of runtime/interpreter/mterp/   *)
(* arm/header.S as a state machine: the pinned registers rPC, rINST,       *)
(* rIBASE, the shadow frame reached through rFP and rREFS, and one action  *)
(* per machine instruction of every macro.  A macro of several             *)
(* instructions is a chain of actions linked by mpc, so that the states    *)
(* between its instructions exist in the model.                            *)
(* With it the call stack the frames are linked into, and operator<< of   *)
(* runtime/base/dumpable-inl.h, statement by statement.                    *)
(***************************************************************************)
EXTENDS Integers, Naturals, Sequences, FiniteSets, TLC

\* ------------------------------------------------------------------ bounds
NumRegs == 3        \* number_of_vregs_ of the modelled shadow frame
MaxVal == 1         \* register words range over 0..MaxVal (0 is null)
CodeLen == 4        \* code units of the modelled method
MaxCount == 2       \* largest "_count" handed to the fetch/advance macros
MaxDepth == 3       \* frames on the call stack, at most
MaxDumps == 2       \* MutatorLockedDumpable objects written to the stream, at most

\* ------------------------------------------------------- program constants
HandlerSizeBits == 7            \* ${handler_size_bits}
OpcodeMask == 255               \* and \reg, rINST, #255
CODEITEM_INSNS_OFFSET == 16     \* asm_support.h, used by EXPORT_DEX_PC

\* --------------------------------------------------------- address layout
CodeItemAddr == 64                                  \* the method's CodeItem
InsnsBase == CodeItemAddr + CODEITEM_INSNS_OFFSET   \* its insns_[] array
rFP == 1024                                         \* base of vregs_[]
rREFS == rFP + 4 * NumRegs                          \* base of the references
MainIBase == 65536                                  \* artMterpAsmInstructionStart
AltIBase == 131072                                  \* artMterpAsmAltInstructionStart

Slots == 0 .. NumRegs - 1
Word == 0 .. MaxVal
Counts == 1 .. MaxCount
Units == 0 .. CodeLen - 1

\* Byte address of vreg v and of its reference shadow ([rFP, v, lsl #2]).
VregAddr(v) == rFP + v * 4
RefAddr(v) == rREFS + v * 4
\* The frame's words, and the one word that follows the reference array.
FrameAddrs == {rFP + 4 * k : k \in 0 .. 2 * NumRegs}
PastFrame == RefAddr(NumRegs)

\* The method's instruction stream: the three units 0x1234 0x5678 0x9ABC,
\* followed by further units up to CodeLen.
Insns(k) ==
    IF k = 0 THEN 4660            \* 0x1234
    ELSE IF k = 1 THEN 22136      \* 0x5678
    ELSE IF k = 2 THEN 39612      \* 0x9ABC
    ELSE (255 + 256 * k) % 65536

UnitAddr(k) == InsnsBase + 2 * k
CodeAddrs == {UnitAddr(k) : k \in Units}
\* ldrh: the 16-bit code unit at byte address a (zero-extended).
Load16(a) == Insns((a - InsnsBase) \div 2)

VARIABLES
    mem,          \* shadow frame words: vregs_[], references, the word after
    reg,          \* the \reg operand register of the register macros
    vreg,         \* the \vreg operand register (a register index)
    tmp1, tmp2,   \* the scratch registers \tmp, \tmp1, \tmp2
    mpc,          \* position inside a macro of several instructions
    rPC,          \* r4: fetch cursor, a byte address into insns_[]
    rINST,        \* r7: first code unit of the current instruction
    rIBASE,       \* r8: handler table base used by the computed goto
    ip,           \* register holding the extracted opcode
    target,       \* machine pc after the last GOTO_OPCODE
    dex_pc,       \* shadow frame dex_pc_       (OFF_FP_DEX_PC)
    dex_pc_ptr,   \* shadow frame dex_pc_ptr_   (OFF_FP_DEX_PC_PTR)
    threadIBase,  \* Thread::current ibase      (THREAD_CURRENT_IBASE_OFFSET)
    phase,        \* where the handler of the current instruction stands
    instPC,       \* history: cursor at which the current instruction began
    exported,     \* history: the PC was exported since that dispatch
    prefetched,   \* history: count of the PREFETCH_INST still valid, or 0
    lastWrite,    \* history: kind of the last write begun on each slot
    lastVal,      \* history: value of the last SET_VREG(_OBJECT) on each slot, or -1
    lastOp,       \* history: the macro that completed last, and its count
    hadRef,       \* history: the last register write found a non-null shadow
    exportCursor, \* history: cursor at the last EXPORT_PC / EXPORT_DEX_PC
    exportDexCursor, \* history: cursor at the last EXPORT_DEX_PC
    before,       \* history: exported fields before a repeated EXPORT_DEX_PC
    scan,         \* what the collector's last scan of the frame observed
    refreshed,    \* history: the thread's table pointer read by the last refresh
    callers,      \* the frames reached through link_, the direct caller first
    trace,        \* the stack trace under construction, one record per frame
    sharedHeld,   \* the calling thread holds mutator_lock_ in shared mode
    dumpPc,       \* position of the calling thread inside operator<<
    os            \* the output stream: what the Dump calls have written

vars == <<mem, reg, vreg, tmp1, tmp2, mpc, rPC, rINST, rIBASE, ip, target,
          dex_pc, dex_pc_ptr, threadIBase, phase, instPC, exported,
          prefetched, lastWrite, lastVal, lastOp, hadRef, exportCursor,
          exportDexCursor, before, scan, refreshed, callers, trace,
          sharedHeld, dumpPc, os>>

regFile == <<mem, reg, vreg, tmp1, tmp2, lastWrite, lastVal, hadRef>>
pcState == <<rPC, rINST, ip, target, dex_pc, dex_pc_ptr, exportCursor,
             exportDexCursor, before>>
exportHist == <<exportCursor, exportDexCursor, before>>

Op(name, arg) == [op |-> name, arg |-> arg]
\* The state kept outside the executing frame: its callers, the exception
\* subsystem's trace, the mutator lock and the dump stream.
collab == <<callers, trace, sharedHeld, dumpPc, os>>
loopState == <<collab, rIBASE, threadIBase, refreshed, phase, instPC, exported,
               prefetched, scan>>

values(i) == mem[VregAddr(i)]
refShadow(i) == mem[RefAddr(i)]

\* ------------------------------------------------------------------- Init
\* A freshly constructed shadow frame: vregs and references zeroed, dex_pc_
\* zero, dex_pc_ptr_ null; the loop is about to fetch the first instruction.
Init ==
    /\ mem = [a \in FrameAddrs |-> IF a = PastFrame THEN MaxVal ELSE 0]
    /\ reg = 0 /\ vreg = 0 /\ tmp1 = 0 /\ tmp2 = 0
    /\ mpc = "idle"
    /\ rPC = InsnsBase /\ rINST = 0 /\ ip = 0 /\ target = 0
    /\ rIBASE = MainIBase /\ threadIBase = MainIBase /\ refreshed = MainIBase
    /\ dex_pc = 0 /\ dex_pc_ptr = 0
    /\ phase = "fetch" /\ instPC = InsnsBase /\ exported = FALSE
    /\ prefetched = 0
    /\ lastWrite = [i \in Slots |-> "none"]
    /\ lastVal = [i \in Slots |-> -1]
    /\ lastOp = Op("none", 0)
    /\ hadRef = FALSE
    /\ exportCursor = 0 /\ exportDexCursor = 0 /\ before = <<>>
    /\ scan = "none"
    /\ callers = <<>> /\ trace = <<>>
    /\ sharedHeld = FALSE /\ dumpPc = "out" /\ os = <<>>

\* The thread runs handler code (it is not stopped in a collaborator and the
\* frame is not being unwound), and no macro is half way through.
CanRun == phase \in {"fetch", "decode", "dispatch", "exec"}
Idle == mpc = "idle" /\ CanRun

\* Mutant of GET_VREG: the load reads the reference array,
\* ldr \reg, [rREFS, \vreg, lsl #2].
GET_VREG_FromRefs ==
    /\ Idle
    /\ \E i \in Slots :
        /\ vreg' = i
        /\ reg' = mem[RefAddr(i)]
    /\ lastOp' = Op("GET_VREG", 0)
    /\ UNCHANGED <<mem, tmp1, tmp2, mpc, lastWrite, lastVal, hadRef>>
    /\ UNCHANGED pcState /\ UNCHANGED loopState

\* ------------------------------------------------------ the register file
\* GET_VREG reg, vreg:  ldr \reg, [rFP, \vreg, lsl #2]
GET_VREG ==
    /\ Idle
    /\ \E i \in Slots :
        /\ vreg' = i
        /\ reg' = mem[VregAddr(i)]
    /\ lastOp' = Op("GET_VREG", 0)
    /\ UNCHANGED <<mem, tmp1, tmp2, mpc, lastWrite, lastVal, hadRef>>
    /\ UNCHANGED pcState /\ UNCHANGED loopState

\* VREG_INDEX_TO_ADDR reg, vreg:  add \reg, rFP, \vreg, lsl #2
VREG_INDEX_TO_ADDR ==
    /\ Idle
    /\ \E i \in Slots :
        /\ vreg' = i
        /\ reg' = rFP + i * 4
    /\ lastOp' = Op("VREG_INDEX_TO_ADDR", 0)
    /\ UNCHANGED <<mem, tmp1, tmp2, mpc, lastWrite, lastVal, hadRef>>
    /\ UNCHANGED pcState /\ UNCHANGED loopState

\* SET_VREG_SHADOW reg, vreg:  str \reg, [rREFS, \vreg, lsl #2]
SET_VREG_SHADOW(m, r, v) == [m EXCEPT ![RefAddr(v)] = r]

\* SET_VREG reg, vreg, first instruction:  str \reg, [rFP, \vreg, lsl #2]
\* (the handler has put the value and the register index in \reg and \vreg)
SET_VREG_1 ==
    /\ Idle
    /\ \E v \in Word, i \in Slots :
        /\ reg' = v
        /\ vreg' = i
        /\ mem' = [mem EXCEPT ![VregAddr(i)] = v]
        /\ lastWrite' = [lastWrite EXCEPT ![i] = "prim"]
        /\ lastVal' = [lastVal EXCEPT ![i] = v]
        /\ hadRef' = (refShadow(i) # 0)
    /\ mpc' = "SET_VREG_2"
    /\ UNCHANGED <<tmp1, tmp2, lastOp>>
    /\ UNCHANGED pcState /\ UNCHANGED loopState

\* Mutant of SET_VREG's second instruction: the mov is lost, so the third
\* instruction stores the value itself into the reference shadow.
SET_VREG_2_KeepsReg ==
    /\ mpc = "SET_VREG_2"
    /\ mpc' = "SET_VREG_3"
    /\ UNCHANGED <<mem, reg, vreg, tmp1, tmp2, lastWrite, lastVal, hadRef, lastOp>>
    /\ UNCHANGED pcState /\ UNCHANGED loopState

\* SET_VREG, second instruction:  mov \reg, #0
SET_VREG_2 ==
    /\ mpc = "SET_VREG_2"
    /\ reg' = 0
    /\ mpc' = "SET_VREG_3"
    /\ UNCHANGED <<mem, vreg, tmp1, tmp2, lastWrite, lastVal, hadRef, lastOp>>
    /\ UNCHANGED pcState /\ UNCHANGED loopState

\* Mutant of SET_VREG's third instruction: the index is lost,
\* str \reg, [rREFS], so the shadow of register 0 is cleared whatever
\* register was written.
SET_VREG_3_ShadowZero ==
    /\ mpc = "SET_VREG_3"
    /\ mem' = [mem EXCEPT ![RefAddr(0)] = reg]
    /\ mpc' = "idle"
    /\ lastOp' = Op("SET_VREG", 0)
    /\ UNCHANGED <<reg, vreg, tmp1, tmp2, lastWrite, lastVal, hadRef>>
    /\ UNCHANGED pcState /\ UNCHANGED loopState

\* Mutant of SET_VREG's third instruction: the shadow is never written.
SET_VREG_3_NoStore ==
    /\ mpc = "SET_VREG_3"
    /\ mpc' = "idle"
    /\ lastOp' = Op("SET_VREG", 0)
    /\ UNCHANGED <<mem, reg, vreg, tmp1, tmp2, lastWrite, lastVal, hadRef>>
    /\ UNCHANGED pcState /\ UNCHANGED loopState

\* SET_VREG, third instruction:  str \reg, [rREFS, \vreg, lsl #2]
SET_VREG_3 ==
    /\ mpc = "SET_VREG_3"
    /\ mem' = [mem EXCEPT ![RefAddr(vreg)] = reg]
    /\ mpc' = "idle"
    /\ lastOp' = Op("SET_VREG", 0)
    /\ UNCHANGED <<reg, vreg, tmp1, tmp2, lastWrite, lastVal, hadRef>>
    /\ UNCHANGED pcState /\ UNCHANGED loopState

\* Mutant of SET_VREG_OBJECT's first instruction: the store to the value
\* array is lost, only the shadow will be written.
SET_VREG_OBJECT_1_NoValueStore ==
    /\ Idle
    /\ \E r \in Word, i \in Slots :
        /\ reg' = r
        /\ vreg' = i
        /\ lastWrite' = [lastWrite EXCEPT ![i] = "ref"]
        /\ lastVal' = [lastVal EXCEPT ![i] = r]
        /\ hadRef' = (refShadow(i) # 0)
    /\ mpc' = "SET_VREG_OBJECT_2"
    /\ UNCHANGED <<mem, tmp1, tmp2, lastOp>>
    /\ UNCHANGED pcState /\ UNCHANGED loopState

\* SET_VREG_OBJECT reg, vreg, first instruction:  str \reg, [rFP, \vreg, lsl #2]
SET_VREG_OBJECT_1 ==
    /\ Idle
    /\ \E r \in Word, i \in Slots :
        /\ reg' = r
        /\ vreg' = i
        /\ mem' = [mem EXCEPT ![VregAddr(i)] = r]
        /\ lastWrite' = [lastWrite EXCEPT ![i] = "ref"]
        /\ lastVal' = [lastVal EXCEPT ![i] = r]
        /\ hadRef' = (refShadow(i) # 0)
    /\ mpc' = "SET_VREG_OBJECT_2"
    /\ UNCHANGED <<tmp1, tmp2, lastOp>>
    /\ UNCHANGED pcState /\ UNCHANGED loopState

\* SET_VREG_OBJECT, second instruction:  str \reg, [rREFS, \vreg, lsl #2]
SET_VREG_OBJECT_2 ==
    /\ mpc = "SET_VREG_OBJECT_2"
    /\ mem' = [mem EXCEPT ![RefAddr(vreg)] = reg]
    /\ mpc' = "idle"
    /\ lastOp' = Op("SET_VREG_OBJECT", 0)
    /\ UNCHANGED <<reg, vreg, tmp1, tmp2, lastWrite, lastVal, hadRef>>
    /\ UNCHANGED pcState /\ UNCHANGED loopState

\* CLEAR_SHADOW_PAIR vreg, tmp1, tmp2, first instruction:  mov \tmp1, #0
\* The macro takes any register index; nothing in it compares \vreg + 1 with
\* number_of_vregs_.
CLEAR_SHADOW_PAIR_1 ==
    /\ Idle
    /\ \E i \in Slots : vreg' = i
    /\ tmp1' = 0
    /\ mpc' = "CLEAR_SHADOW_PAIR_2"
    /\ UNCHANGED <<mem, reg, tmp2, lastWrite, lastVal, hadRef, lastOp>>
    /\ UNCHANGED pcState /\ UNCHANGED loopState

\* Mutant of CLEAR_SHADOW_PAIR's second instruction: the #1 is lost, so both
\* stores clear the same shadow.
CLEAR_SHADOW_PAIR_2_SameReg ==
    /\ mpc = "CLEAR_SHADOW_PAIR_2"
    /\ tmp2' = vreg
    /\ mpc' = "CLEAR_SHADOW_PAIR_3"
    /\ UNCHANGED <<mem, reg, vreg, tmp1, lastWrite, lastVal, hadRef, lastOp>>
    /\ UNCHANGED pcState /\ UNCHANGED loopState

\* CLEAR_SHADOW_PAIR, second instruction:  add \tmp2, \vreg, #1
CLEAR_SHADOW_PAIR_2 ==
    /\ mpc = "CLEAR_SHADOW_PAIR_2"
    /\ tmp2' = vreg + 1
    /\ mpc' = "CLEAR_SHADOW_PAIR_3"
    /\ UNCHANGED <<mem, reg, vreg, tmp1, lastWrite, lastVal, hadRef, lastOp>>
    /\ UNCHANGED pcState /\ UNCHANGED loopState

\* CLEAR_SHADOW_PAIR, third instruction:  SET_VREG_SHADOW \tmp1, \vreg
CLEAR_SHADOW_PAIR_3 ==
    /\ mpc = "CLEAR_SHADOW_PAIR_3"
    /\ mem' = SET_VREG_SHADOW(mem, tmp1, vreg)
    /\ lastWrite' = [lastWrite EXCEPT ![vreg] = "clear"]
    /\ hadRef' = (refShadow(vreg) # 0 /\ mem[RefAddr(tmp2)] # 0)
    /\ mpc' = "CLEAR_SHADOW_PAIR_4"
    /\ UNCHANGED <<reg, vreg, tmp1, tmp2, lastVal, lastOp>>
    /\ UNCHANGED pcState /\ UNCHANGED loopState

\* CLEAR_SHADOW_PAIR, fourth instruction:  SET_VREG_SHADOW \tmp1, \tmp2
\* With \vreg the last register, \tmp2 is number_of_vregs_ and the store
\* lands on the word that follows the reference array.
CLEAR_SHADOW_PAIR_4 ==
    /\ mpc = "CLEAR_SHADOW_PAIR_4"
    /\ mem' = SET_VREG_SHADOW(mem, tmp1, tmp2)
    /\ lastWrite' = IF tmp2 \in Slots
                    THEN [lastWrite EXCEPT ![tmp2] = "clear"]
                    ELSE lastWrite
    /\ mpc' = "idle"
    /\ lastOp' = Op("CLEAR_SHADOW_PAIR", 0)
    /\ UNCHANGED <<reg, vreg, tmp1, tmp2, lastVal, hadRef>>
    /\ UNCHANGED pcState /\ UNCHANGED loopState

\* ------------------------------------------------- program-counter tracker
\* The logical dex pc of cursor address a: (a - (code_item + insns offset)) asr 1
DexPcOf(a) == (a - InsnsBase) \div 2

\* Mutant of EXPORT_PC: the store writes back, str rPC, [rFP, #off]!-style,
\* modelled on the cursor: every export also moves rPC by one code unit.
EXPORT_PC_Advancing ==
    /\ Idle /\ phase = "exec"
    /\ rPC + 2 \in CodeAddrs
    /\ dex_pc_ptr' = rPC
    /\ rPC' = rPC + 2
    /\ exported' = TRUE
    /\ exportCursor' = rPC
    /\ lastOp' = Op("EXPORT_PC", 0)
    /\ UNCHANGED <<rINST, ip, target, dex_pc, mpc>>
    /\ UNCHANGED <<exportDexCursor, before>>
    /\ UNCHANGED <<collab, rIBASE, threadIBase, refreshed, phase, instPC, prefetched, scan>>
    /\ UNCHANGED regFile

\* Mutant of EXPORT_PC: the store goes to the dex_pc_ field,
\* str rPC, [rFP, #OFF_FP_DEX_PC], and dex_pc_ptr_ keeps its old value.
EXPORT_PC_WrongField ==
    /\ Idle /\ phase = "exec"
    /\ dex_pc' = rPC
    /\ exported' = TRUE
    /\ exportCursor' = rPC
    /\ lastOp' = Op("EXPORT_PC", 0)
    /\ UNCHANGED <<rPC, rINST, ip, target, dex_pc_ptr, mpc>>
    /\ UNCHANGED <<exportDexCursor, before>>
    /\ UNCHANGED <<collab, rIBASE, threadIBase, refreshed, phase, instPC, prefetched, scan>>
    /\ UNCHANGED regFile

\* Mutant of EXPORT_PC: the wrong source register, str rINST, [rFP,
\* #OFF_FP_DEX_PC_PTR]; the frame records the instruction word, not the
\* cursor.
EXPORT_PC_StoresInst ==
    /\ Idle /\ phase = "exec"
    /\ dex_pc_ptr' = rINST
    /\ exported' = TRUE
    /\ exportCursor' = rPC
    /\ lastOp' = Op("EXPORT_PC", 0)
    /\ UNCHANGED <<rPC, rINST, ip, target, dex_pc, mpc>>
    /\ UNCHANGED <<exportDexCursor, before>>
    /\ UNCHANGED <<collab, rIBASE, threadIBase, refreshed, phase, instPC, prefetched, scan>>
    /\ UNCHANGED regFile

\* EXPORT_PC:  str rPC, [rFP, #OFF_FP_DEX_PC_PTR]
EXPORT_PC ==
    /\ Idle /\ phase = "exec"
    /\ dex_pc_ptr' = rPC
    /\ exported' = TRUE
    /\ exportCursor' = rPC
    /\ lastOp' = Op("EXPORT_PC", 0)
    /\ UNCHANGED <<rPC, rINST, ip, target, dex_pc, mpc>>
    /\ UNCHANGED <<exportDexCursor, before>>
    /\ UNCHANGED <<collab, rIBASE, threadIBase, refreshed, phase, instPC, prefetched, scan>>
    /\ UNCHANGED regFile

\* EXPORT_DEX_PC tmp, first instruction:  ldr \tmp, [rFP, #OFF_FP_CODE_ITEM]
EXPORT_DEX_PC_1 ==
    /\ Idle /\ phase = "exec"
    /\ tmp1' = CodeItemAddr
    /\ mpc' = "EXPORT_DEX_PC_2"
    /\ before' = IF lastOp.op = "EXPORT_DEX_PC"
                 THEN <<dex_pc, dex_pc_ptr, tmp1>> ELSE <<>>
    /\ UNCHANGED <<mem, reg, vreg, tmp2, lastWrite, lastVal, hadRef, lastOp>>
    /\ UNCHANGED <<rPC, rINST, ip, target, dex_pc, dex_pc_ptr>>
    /\ UNCHANGED <<exportCursor, exportDexCursor>>
    /\ UNCHANGED loopState

\* EXPORT_DEX_PC, second instruction:  str rPC, [rFP, #OFF_FP_DEX_PC_PTR]
EXPORT_DEX_PC_2 ==
    /\ mpc = "EXPORT_DEX_PC_2"
    /\ dex_pc_ptr' = rPC
    /\ exported' = TRUE
    /\ exportCursor' = rPC
    /\ mpc' = "EXPORT_DEX_PC_3"
    /\ UNCHANGED <<rPC, rINST, ip, target, dex_pc, lastOp>>
    /\ UNCHANGED <<exportDexCursor, before>>
    /\ UNCHANGED <<collab, rIBASE, threadIBase, refreshed, phase, instPC, prefetched, scan>>
    /\ UNCHANGED regFile

\* Mutant of EXPORT_DEX_PC's third instruction: the offset of insns_[] in
\* the CodeItem is not added, so the distance is taken from the CodeItem's
\* own address.
EXPORT_DEX_PC_3_NoOffset ==
    /\ mpc = "EXPORT_DEX_PC_3"
    /\ mpc' = "EXPORT_DEX_PC_4"
    /\ UNCHANGED <<mem, reg, vreg, tmp1, tmp2, lastWrite, lastVal, hadRef, lastOp>>
    /\ UNCHANGED pcState /\ UNCHANGED loopState

\* EXPORT_DEX_PC, third instruction:  add \tmp, #CODEITEM_INSNS_OFFSET
EXPORT_DEX_PC_3 ==
    /\ mpc = "EXPORT_DEX_PC_3"
    /\ tmp1' = tmp1 + CODEITEM_INSNS_OFFSET
    /\ mpc' = "EXPORT_DEX_PC_4"
    /\ UNCHANGED <<mem, reg, vreg, tmp2, lastWrite, lastVal, hadRef, lastOp>>
    /\ UNCHANGED pcState /\ UNCHANGED loopState

\* EXPORT_DEX_PC, fourth instruction:  sub \tmp, rPC, \tmp
EXPORT_DEX_PC_4 ==
    /\ mpc = "EXPORT_DEX_PC_4"
    /\ tmp1' = rPC - tmp1
    /\ mpc' = "EXPORT_DEX_PC_5"
    /\ UNCHANGED <<mem, reg, vreg, tmp2, lastWrite, lastVal, hadRef, lastOp>>
    /\ UNCHANGED pcState /\ UNCHANGED loopState

\* asr #1 of a register read as a signed number: the floor of the half.
\* (All addresses of the model are far below 2^31, so no sum or difference
\* of the macros wraps around the 32-bit register width.)
Asr1(w) == w \div 2

\* Mutant of EXPORT_DEX_PC's fifth instruction: the shift is lost, so the
\* byte distance is stored as the dex pc.
EXPORT_DEX_PC_5_NoShift ==
    /\ mpc = "EXPORT_DEX_PC_5"
    /\ mpc' = "EXPORT_DEX_PC_6"
    /\ UNCHANGED <<mem, reg, vreg, tmp1, tmp2, lastWrite, lastVal, hadRef, lastOp>>
    /\ UNCHANGED pcState /\ UNCHANGED loopState

\* EXPORT_DEX_PC, fifth instruction:  asr \tmp, #1
EXPORT_DEX_PC_5 ==
    /\ mpc = "EXPORT_DEX_PC_5"
    /\ tmp1' = Asr1(tmp1)
    /\ mpc' = "EXPORT_DEX_PC_6"
    /\ UNCHANGED <<mem, reg, vreg, tmp2, lastWrite, lastVal, hadRef, lastOp>>
    /\ UNCHANGED pcState /\ UNCHANGED loopState

\* EXPORT_DEX_PC, sixth instruction:  str \tmp, [rFP, #OFF_FP_DEX_PC]
EXPORT_DEX_PC_6 ==
    /\ mpc = "EXPORT_DEX_PC_6"
    /\ dex_pc' = tmp1
    /\ mpc' = "idle"
    /\ exportDexCursor' = rPC
    /\ lastOp' = Op("EXPORT_DEX_PC", 0)
    /\ UNCHANGED <<rPC, rINST, ip, target, dex_pc_ptr, exportCursor, before>>
    /\ UNCHANGED loopState
    /\ UNCHANGED regFile

\* Mutant of FETCH_INST: post-indexed addressing, ldrh rINST, [rPC], #2,
\* which moves the cursor past the unit it has read.
FETCH_INST_Advancing ==
    /\ Idle
    /\ rPC + 2 \in CodeAddrs
    /\ rINST' = Load16(rPC)
    /\ rPC' = rPC + 2
    /\ phase' = IF phase = "fetch" THEN "decode" ELSE phase
    /\ prefetched' = 0
    /\ lastOp' = Op("FETCH_INST", 0)
    /\ UNCHANGED <<ip, target, dex_pc, dex_pc_ptr, mpc>> /\ UNCHANGED exportHist
    /\ UNCHANGED <<collab, rIBASE, threadIBase, refreshed, instPC, exported, scan>>
    /\ UNCHANGED regFile

\* FETCH_INST:  ldrh rINST, [rPC]
FETCH_INST ==
    /\ Idle
    /\ rINST' = Load16(rPC)
    /\ phase' = IF phase = "fetch" THEN "decode" ELSE phase
    /\ prefetched' = 0
    /\ lastOp' = Op("FETCH_INST", 0)
    /\ UNCHANGED <<rPC, ip, target, dex_pc, dex_pc_ptr, mpc>> /\ UNCHANGED exportHist
    /\ UNCHANGED <<collab, rIBASE, threadIBase, refreshed, instPC, exported, scan>>
    /\ UNCHANGED regFile

\* Mutant of FETCH_ADVANCE_INST: post-indexed addressing, ldrh rINST, [rPC],
\* #((\count)*2), which loads at the old cursor and moves it afterwards.
FETCH_ADVANCE_INST_PostIndexed ==
    /\ Idle /\ phase = "exec"
    /\ \E count \in Counts :
        /\ rPC + count * 2 \in CodeAddrs
        /\ rPC' = rPC + count * 2
        /\ rINST' = Load16(rPC)
        /\ lastOp' = Op("FETCH_ADVANCE_INST", count)
    /\ phase' = "decode"
    /\ prefetched' = 0
    /\ UNCHANGED <<ip, target, dex_pc, dex_pc_ptr, mpc>> /\ UNCHANGED exportHist
    /\ UNCHANGED <<collab, rIBASE, threadIBase, refreshed, instPC, exported, scan>>
    /\ UNCHANGED regFile

\* FETCH_ADVANCE_INST count:  ldrh rINST, [rPC, #((\count)*2)]!
\* Pre-indexed with write-back: rPC moves first, the load uses the new rPC.
FETCH_ADVANCE_INST ==
    /\ Idle /\ phase = "exec"
    /\ \E count \in Counts :
        /\ rPC + count * 2 \in CodeAddrs
        /\ rPC' = rPC + count * 2
        /\ rINST' = Load16(rPC + count * 2)
        /\ lastOp' = Op("FETCH_ADVANCE_INST", count)
    /\ phase' = "decode"
    /\ prefetched' = 0
    /\ UNCHANGED <<ip, target, dex_pc, dex_pc_ptr, mpc>> /\ UNCHANGED exportHist
    /\ UNCHANGED <<collab, rIBASE, threadIBase, refreshed, instPC, exported, scan>>
    /\ UNCHANGED regFile

\* FETCH_ADVANCE_INST_RB reg:  ldrh rINST, [rPC, \reg]!
\* \reg is a signed distance in bytes, a code-unit distance already doubled.
FETCH_ADVANCE_INST_RB ==
    /\ Idle /\ phase = "exec"
    /\ \E units \in -MaxCount .. MaxCount :
        /\ rPC + units * 2 \in CodeAddrs
        /\ rPC' = rPC + units * 2
        /\ rINST' = Load16(rPC + units * 2)
        /\ lastOp' = Op("FETCH_ADVANCE_INST_RB", units * 2)
    /\ phase' = "decode"
    /\ prefetched' = 0
    /\ UNCHANGED <<ip, target, dex_pc, dex_pc_ptr, mpc>> /\ UNCHANGED exportHist
    /\ UNCHANGED <<collab, rIBASE, threadIBase, refreshed, instPC, exported, scan>>
    /\ UNCHANGED regFile

\* PREFETCH_ADVANCE_INST dreg, sreg, count:  ldrh \dreg, [\sreg, #((\count)*2)]!
\* FETCH_ADVANCE_INST with the registers as parameters; here with the pinned
\* registers, \dreg = rINST and \sreg = rPC.
PREFETCH_ADVANCE_INST ==
    /\ Idle /\ phase = "exec"
    /\ \E count \in Counts :
        /\ rPC + count * 2 \in CodeAddrs
        /\ rPC' = rPC + count * 2
        /\ rINST' = Load16(rPC + count * 2)
        /\ lastOp' = Op("PREFETCH_ADVANCE_INST", count)
    /\ phase' = "decode"
    /\ prefetched' = 0
    /\ UNCHANGED <<ip, target, dex_pc, dex_pc_ptr, mpc>> /\ UNCHANGED exportHist
    /\ UNCHANGED <<collab, rIBASE, threadIBase, refreshed, instPC, exported, scan>>
    /\ UNCHANGED regFile

\* Mutant of ADVANCE: the count is not doubled, add rPC, #(\count), so the
\* cursor moves by bytes where code units were meant.
ADVANCE_Bytes ==
    /\ Idle /\ phase = "exec"
    /\ \E count \in Counts :
        /\ rPC + count * 2 \in CodeAddrs
        /\ rPC' = rPC + count
        /\ phase' = IF prefetched = count THEN "decode" ELSE "fetch"
        /\ lastOp' = Op("ADVANCE", count)
    /\ prefetched' = 0
    /\ UNCHANGED <<rINST, ip, target, dex_pc, dex_pc_ptr, mpc>> /\ UNCHANGED exportHist
    /\ UNCHANGED <<collab, rIBASE, threadIBase, refreshed, instPC, exported, scan>>
    /\ UNCHANGED regFile

\* Mutant of PREFETCH_INST: the load writes back,
\* ldrh rINST, [rPC, #((\count)*2)]!, and so moves the cursor.
PREFETCH_INST_WriteBack ==
    /\ Idle /\ phase = "exec"
    /\ \E count \in Counts :
        /\ rPC + count * 2 \in CodeAddrs
        /\ rINST' = Load16(rPC + count * 2)
        /\ rPC' = rPC + count * 2
        /\ prefetched' = count
        /\ lastOp' = Op("PREFETCH_INST", count)
    /\ UNCHANGED <<ip, target, dex_pc, dex_pc_ptr, mpc>> /\ UNCHANGED exportHist
    /\ UNCHANGED <<collab, rIBASE, threadIBase, refreshed, phase, instPC, exported, scan>>
    /\ UNCHANGED regFile

\* PREFETCH_INST count:  ldrh rINST, [rPC, #((\count)*2)]
PREFETCH_INST ==
    /\ Idle /\ phase = "exec"
    /\ \E count \in Counts :
        /\ rPC + count * 2 \in CodeAddrs
        /\ rINST' = Load16(rPC + count * 2)
        /\ prefetched' = count
        /\ lastOp' = Op("PREFETCH_INST", count)
    /\ UNCHANGED <<rPC, ip, target, dex_pc, dex_pc_ptr, mpc>> /\ UNCHANGED exportHist
    /\ UNCHANGED <<collab, rIBASE, threadIBase, refreshed, phase, instPC, exported, scan>>
    /\ UNCHANGED regFile

\* Mutant of ADVANCE: the macro keeps the frame's exported pointer in step
\* with the cursor it moves.
ADVANCE_Exporting ==
    /\ Idle /\ phase = "exec"
    /\ \E count \in Counts :
        /\ rPC + count * 2 \in CodeAddrs
        /\ rPC' = rPC + count * 2
        /\ dex_pc_ptr' = rPC + count * 2
        /\ phase' = IF prefetched = count THEN "decode" ELSE "fetch"
        /\ lastOp' = Op("ADVANCE", count)
    /\ prefetched' = 0
    /\ UNCHANGED <<rINST, ip, target, dex_pc, mpc>> /\ UNCHANGED exportHist
    /\ UNCHANGED <<collab, rIBASE, threadIBase, refreshed, instPC, exported, scan>>
    /\ UNCHANGED regFile

\* ADVANCE count:  add rPC, #((\count)*2)
\* The instruction word is the next instruction's only if it was prefetched
\* with the same count; otherwise the loop has to fetch it.
ADVANCE ==
    /\ Idle /\ phase = "exec"
    /\ \E count \in Counts :
        /\ rPC + count * 2 \in CodeAddrs
        /\ rPC' = rPC + count * 2
        /\ phase' = IF prefetched = count THEN "decode" ELSE "fetch"
        /\ lastOp' = Op("ADVANCE", count)
    /\ prefetched' = 0
    /\ UNCHANGED <<rINST, ip, target, dex_pc, dex_pc_ptr, mpc>> /\ UNCHANGED exportHist
    /\ UNCHANGED <<collab, rIBASE, threadIBase, refreshed, instPC, exported, scan>>
    /\ UNCHANGED regFile

\* ldrsh: the code unit at a, sign-extended from 16 bits.
Load16S(a) == IF Load16(a) >= 32768 THEN Load16(a) - 65536 ELSE Load16(a)
\* ldrb: one byte of the (little-endian) code unit that contains address a.
Load8(a) ==
    IF (a - InsnsBase) % 2 = 0 THEN Load16(a) % 256 ELSE Load16(a - 1) \div 256

\* FETCH reg, count:  ldrh \reg, [rPC, #((\count)*2)]
FETCH ==
    /\ Idle /\ phase = "exec"
    /\ \E count \in Counts :
        /\ rPC + count * 2 \in CodeAddrs
        /\ reg' = Load16(rPC + count * 2)
        /\ lastOp' = Op("FETCH", count)
    /\ UNCHANGED <<mem, vreg, tmp1, tmp2, mpc, lastWrite, lastVal, hadRef>>
    /\ UNCHANGED pcState /\ UNCHANGED loopState

\* FETCH_S reg, count:  ldrsh \reg, [rPC, #((\count)*2)]
FETCH_S ==
    /\ Idle /\ phase = "exec"
    /\ \E count \in Counts :
        /\ rPC + count * 2 \in CodeAddrs
        /\ reg' = Load16S(rPC + count * 2)
        /\ lastOp' = Op("FETCH_S", count)
    /\ UNCHANGED <<mem, vreg, tmp1, tmp2, mpc, lastWrite, lastVal, hadRef>>
    /\ UNCHANGED pcState /\ UNCHANGED loopState

\* FETCH_B reg, count, byte:  ldrb \reg, [rPC, #((\count)*2+(\byte))]
FETCH_B ==
    /\ Idle /\ phase = "exec"
    /\ \E count \in 0 .. MaxCount, byte \in {0, 1} :
        /\ rPC + count * 2 \in CodeAddrs
        /\ reg' = Load8(rPC + count * 2 + byte)
        /\ lastOp' = Op("FETCH_B", count * 2 + byte)
    /\ UNCHANGED <<mem, vreg, tmp1, tmp2, mpc, lastWrite, lastVal, hadRef>>
    /\ UNCHANGED pcState /\ UNCHANGED loopState

\* Mutant of GET_INST_OPCODE: the mask is lost and the whole instruction
\* word is taken as the opcode.
GetOpcode_NoMask(w) == w

\* ------------------------------------------------------------- dispatch
\* GET_INST_OPCODE reg:  and \reg, rINST, #255
GetOpcode(w) == w % (OpcodeMask + 1)

\* GOTO_OPCODE reg:  add pc, rIBASE, \reg, lsl #${handler_size_bits}
GotoTarget(base, op) == base + op * 2 ^ HandlerSizeBits

GET_INST_OPCODE ==
    /\ Idle /\ phase = "decode"
    /\ ip' = GetOpcode(rINST)
    /\ phase' = "dispatch"
    /\ lastOp' = Op("GET_INST_OPCODE", 0)
    /\ UNCHANGED <<rPC, rINST, target, dex_pc, dex_pc_ptr, mpc>> /\ UNCHANGED exportHist
    /\ UNCHANGED <<collab, rIBASE, threadIBase, refreshed, instPC, exported, prefetched, scan>>
    /\ UNCHANGED regFile

\* Mutant of GOTO_OPCODE: the jump is computed from the thread's table
\* pointer itself rather than from the copy held in rIBASE.
GOTO_OPCODE_ReadsThread ==
    /\ Idle /\ phase = "dispatch"
    /\ target' = GotoTarget(threadIBase, ip)
    /\ phase' = "exec"
    /\ instPC' = rPC
    /\ exported' = FALSE
    /\ lastOp' = Op("GOTO_OPCODE", 0)
    /\ UNCHANGED <<rPC, rINST, ip, dex_pc, dex_pc_ptr, mpc>> /\ UNCHANGED exportHist
    /\ UNCHANGED <<collab, rIBASE, threadIBase, refreshed, prefetched, scan>>
    /\ UNCHANGED regFile

\* The jump enters the handler of the instruction at the cursor: a new
\* current instruction, for which nothing has been exported yet.
GOTO_OPCODE ==
    /\ Idle /\ phase = "dispatch"
    /\ target' = GotoTarget(rIBASE, ip)
    /\ phase' = "exec"
    /\ instPC' = rPC
    /\ exported' = FALSE
    /\ lastOp' = Op("GOTO_OPCODE", 0)
    /\ UNCHANGED <<rPC, rINST, ip, dex_pc, dex_pc_ptr, mpc>> /\ UNCHANGED exportHist
    /\ UNCHANGED <<collab, rIBASE, threadIBase, refreshed, prefetched, scan>>
    /\ UNCHANGED regFile

\* GOTO_OPCODE_BASE base, reg:  add pc, \base, \reg, lsl #${handler_size_bits}
\* The table base is whatever register the handler names; the macro does not
\* read rIBASE.
GOTO_OPCODE_BASE ==
    /\ Idle /\ phase = "dispatch"
    /\ \E base \in {MainIBase, AltIBase} :
        /\ target' = GotoTarget(base, ip)
        /\ lastOp' = Op("GOTO_OPCODE_BASE", base)
    /\ phase' = "exec"
    /\ instPC' = rPC
    /\ exported' = FALSE
    /\ UNCHANGED <<rPC, rINST, ip, dex_pc, dex_pc_ptr, mpc>> /\ UNCHANGED exportHist
    /\ UNCHANGED <<collab, rIBASE, threadIBase, refreshed, prefetched, scan>>
    /\ UNCHANGED regFile

\* REFRESH_IBASE:  ldr rIBASE, [rSELF, #THREAD_CURRENT_IBASE_OFFSET]
REFRESH_IBASE ==
    /\ Idle /\ phase = "exec"
    /\ rIBASE' = threadIBase
    /\ refreshed' = threadIBase
    /\ lastOp' = Op("REFRESH_IBASE", 0)
    /\ UNCHANGED <<collab, threadIBase, phase, instPC, exported, prefetched,
                   scan, mpc>>
    /\ UNCHANGED pcState /\ UNCHANGED regFile

\* ------------------------------------- suspension, collector, exceptions
\* A slot is torn when the write last begun on it stored the value but the
\* reference shadow does not yet agree with it.
Torn(i) ==
    \/ lastWrite[i] = "prim" /\ refShadow(i) # 0
    \/ lastWrite[i] = "ref" /\ refShadow(i) # values(i)

\* The handler calls a runtime collaborator (allocation, invoke, ...): a
\* branch-and-link between two macros, after the PC export the call requires.
Suspend ==
    /\ Idle /\ phase = "exec"
    /\ exported
    /\ phase' = "suspended"
    /\ UNCHANGED <<collab, rIBASE, threadIBase, refreshed, instPC, exported, prefetched, scan>>
    /\ UNCHANGED <<mpc, lastOp>>
    /\ UNCHANGED pcState /\ UNCHANGED regFile

\* The collector scans the frame's (value, shadow) pairs while the owning
\* thread is stopped in the collaborator.
Scan ==
    /\ phase = "suspended"
    /\ scan' = IF \E i \in Slots : Torn(i) THEN "torn" ELSE "clean"
    /\ UNCHANGED <<collab, rIBASE, threadIBase, refreshed, phase, instPC, exported, prefetched>>
    /\ UNCHANGED <<mpc, lastOp>>
    /\ UNCHANGED pcState /\ UNCHANGED regFile

\* The thread's dispatch-table pointer is swapped while the thread is inside
\* the collaborator (entering or leaving tracing, single-step, ...).
SwapIBase ==
    /\ phase = "suspended"
    /\ threadIBase' = IF threadIBase = MainIBase THEN AltIBase ELSE MainIBase
    /\ UNCHANGED <<collab, rIBASE, refreshed, phase, instPC, exported,
                   prefetched, scan>>
    /\ UNCHANGED <<mpc, lastOp>>
    /\ UNCHANGED pcState /\ UNCHANGED regFile

\* The collaborator returns normally into the handler.
Resume ==
    /\ phase = "suspended"
    /\ phase' = "exec"
    /\ scan' = "none"
    /\ UNCHANGED <<collab, rIBASE, threadIBase, refreshed, instPC, exported, prefetched>>
    /\ UNCHANGED <<mpc, lastOp>>
    /\ UNCHANGED pcState /\ UNCHANGED regFile

\* A guest exception is raised by the current instruction (or by the
\* collaborator it called): the frame is handed to the exception subsystem.
Throw ==
    /\ mpc = "idle" /\ phase \in {"exec", "suspended"}
    /\ exported
    /\ phase' = "thrown"
    /\ UNCHANGED <<collab, rIBASE, threadIBase, refreshed, instPC, exported, prefetched, scan>>
    /\ UNCHANGED <<mpc, lastOp>>
    /\ UNCHANGED pcState /\ UNCHANGED regFile

\* The frame once its first instruction has been fetched, decoded and
\* dispatched and its handler has exported the PC: the state Init reaches by
\* FETCH_INST, GET_INST_OPCODE, GOTO_OPCODE and EXPORT_PC.
InitExec ==
    /\ mem = [a \in FrameAddrs |-> IF a = PastFrame THEN MaxVal ELSE 0]
    /\ reg = 0 /\ vreg = 0 /\ tmp1 = 0 /\ tmp2 = 0
    /\ mpc = "idle"
    /\ rPC = InsnsBase /\ rINST = Load16(InsnsBase)
    /\ ip = GetOpcode(Load16(InsnsBase))
    /\ target = GotoTarget(MainIBase, GetOpcode(Load16(InsnsBase)))
    /\ rIBASE = MainIBase /\ threadIBase = MainIBase /\ refreshed = MainIBase
    /\ dex_pc = 0 /\ dex_pc_ptr = InsnsBase
    /\ phase = "exec" /\ instPC = InsnsBase /\ exported = TRUE
    /\ prefetched = 0
    /\ lastWrite = [i \in Slots |-> "none"]
    /\ lastVal = [i \in Slots |-> -1]
    /\ lastOp = Op("EXPORT_PC", 0)
    /\ hadRef = FALSE
    /\ exportCursor = InsnsBase /\ exportDexCursor = 0 /\ before = <<>>
    /\ scan = "none"
    /\ callers = <<>> /\ trace = <<>>
    /\ sharedHeld = FALSE /\ dumpPc = "out" /\ os = <<>>

\* The register file of one executing instruction, with the collector: the
\* handler's register macros and its calls into collaborators.
NextRF ==
    \/ GET_VREG
    \/ SET_VREG_1 \/ SET_VREG_2 \/ SET_VREG_3
    \/ SET_VREG_OBJECT_1 \/ SET_VREG_OBJECT_2
    \/ CLEAR_SHADOW_PAIR_1 \/ CLEAR_SHADOW_PAIR_2
    \/ CLEAR_SHADOW_PAIR_3 \/ CLEAR_SHADOW_PAIR_4
    \/ Suspend \/ Scan \/ Resume

SpecRF == InitExec /\ [][NextRF]_vars

\* The program-counter tracker and the dispatch loop, with the collaborators
\* a handler calls and the exceptions it raises.
NextPC ==
    \/ EXPORT_PC
    \/ EXPORT_DEX_PC_1 \/ EXPORT_DEX_PC_2 \/ EXPORT_DEX_PC_3
    \/ EXPORT_DEX_PC_4 \/ EXPORT_DEX_PC_5 \/ EXPORT_DEX_PC_6
    \/ FETCH_INST \/ FETCH_ADVANCE_INST \/ FETCH_ADVANCE_INST_RB
    \/ PREFETCH_ADVANCE_INST \/ PREFETCH_INST \/ ADVANCE
    \/ FETCH \/ FETCH_S \/ FETCH_B
    \/ GET_INST_OPCODE \/ GOTO_OPCODE \/ GOTO_OPCODE_BASE \/ REFRESH_IBASE
    \/ Suspend \/ SwapIBase \/ Resume \/ Throw

SpecPC == Init /\ [][NextPC]_vars

\* ======================================================== the claims
\* No macro is half way through its instructions.
Completed == mpc = "idle"

\* C1 as stated: after any sequence of completed setPrimitive, setReference
\* and clearShadowPair calls, refShadow[i] is non-null if and only if the
\* most recent write to slot i was a setReference.
C1_ShadowIffLastWriteRef ==
    Completed =>
        \A i \in Slots : (refShadow(i) # 0) <=> (lastWrite[i] = "ref")

\* C1 amended: after any sequence of completed setPrimitive, setReference and
\* clearShadowPair calls, refShadow[i] is non-null if and only if the most
\* recent write to slot i was a setReference of a non-null reference.
C1_ShadowIffLastWriteNonNullRef ==
    Completed =>
        \A i \in Slots :
            (refShadow(i) # 0) <=> (lastWrite[i] = "ref" /\ values(i) # 0)

\* C1 witness: one slot last written by setReference with a live shadow, one
\* last written by setPrimitive with a non-zero value, one last cleared.
C1_Witness ==
    /\ Completed
    /\ \E i, j, k \in Slots :
        /\ lastWrite[i] = "ref" /\ refShadow(i) # 0
        /\ lastWrite[j] = "prim" /\ values(j) # 0 /\ refShadow(j) = 0
        /\ lastWrite[k] = "clear" /\ refShadow(k) = 0

\* C10 as stated: clearShadowPair(i) leaves refShadow[i] and refShadow[i+1]
\* null for every slot index i, the last slot index of the frame included.
C10_ClearsBothForEverySlot ==
    (Completed /\ lastOp.op = "CLEAR_SHADOW_PAIR") =>
        /\ vreg + 1 \in Slots
        /\ refShadow(vreg) = 0
        /\ refShadow(vreg + 1) = 0

\* C10 amended: clearShadowPair(i) leaves refShadow[i] null for every slot
\* index i, and refShadow[i+1] null whenever i+1 is a slot of the frame; with
\* i the last slot there is no refShadow[i+1], and the second store zeroes
\* the word that follows the reference array.
C10_ClearsPairInsideFrame ==
    (Completed /\ lastOp.op = "CLEAR_SHADOW_PAIR") =>
        /\ refShadow(vreg) = 0
        /\ vreg + 1 \in Slots => refShadow(vreg + 1) = 0
        /\ vreg + 1 \notin Slots => mem[PastFrame] = 0

\* C10 witness: a clearShadowPair has completed on two slots of the frame
\* that both held live references when it began.
C10_Witness ==
    /\ Completed /\ lastOp.op = "CLEAR_SHADOW_PAIR"
    /\ vreg + 1 \in Slots /\ hadRef
    /\ refShadow(vreg) = 0 /\ refShadow(vreg + 1) = 0

\* C4: a collector scan, which runs while the owning thread is stopped at a
\* suspension point, never observes a torn write: no slot whose value is a
\* newly written primitive while its shadow is still non-null, and no slot
\* whose value is a newly written reference while its shadow differs.
C4_ScanNeverSeesTornWrite ==
    /\ scan # "torn"
    /\ phase = "suspended" => (Completed /\ \A i \in Slots : ~Torn(i))

\* C4 witness: the collector has scanned the frame after a setPrimitive
\* overwrote a slot that held a live reference.
C4_Witness ==
    /\ scan = "clean" /\ phase = "suspended"
    /\ lastOp.op = "SET_VREG" /\ hadRef
    /\ lastWrite[vreg] = "prim" /\ values(vreg) # 0

\* C3 as stated: immediately after every exportPC (EXPORT_PC or
\* EXPORT_DEX_PC), exportedPCPointer equals the live cursor and exportedPC
\* equals the logical instruction offset of that cursor.
C3_ExportSetsBothFields ==
    (Completed /\ lastOp.op \in {"EXPORT_PC", "EXPORT_DEX_PC"}) =>
        /\ dex_pc_ptr = rPC
        /\ UnitAddr(dex_pc) = rPC

\* C3 amended: immediately after EXPORT_PC or EXPORT_DEX_PC the
\* exportedPCPointer equals the live cursor; exportedPC equals the logical
\* instruction offset of that cursor immediately after EXPORT_DEX_PC, while
\* EXPORT_PC leaves exportedPC as it was.
C3_ExportSetsPointerDexPcOnlyByExportDexPc ==
    /\ [](Completed =>
            /\ lastOp.op = "EXPORT_PC" => dex_pc_ptr = rPC
            /\ lastOp.op = "EXPORT_DEX_PC" =>
                    (dex_pc_ptr = rPC /\ UnitAddr(dex_pc) = rPC))
    /\ [][EXPORT_PC => dex_pc' = dex_pc]_vars

\* C3 witness: an EXPORT_DEX_PC has completed with the cursor on a unit other
\* than the first, so that both fields moved off their initial values.
C3_Witness ==
    /\ Completed /\ lastOp.op = "EXPORT_DEX_PC"
    /\ rPC = UnitAddr(2) /\ dex_pc = 2 /\ dex_pc_ptr = rPC

\* C5: fetchAdvance(count) first moves the cursor forward by count code units
\* and then reads: from cursor p the cursor becomes p+count and the
\* instruction word is the code unit at p+count (FETCH_ADVANCE_INST with a
\* count, FETCH_ADVANCE_INST_RB with a signed byte distance).
C5_FetchAdvanceMovesThenReads ==
    /\ phase = "exec" => rPC = instPC
    /\ (Completed /\ lastOp.op = "FETCH_ADVANCE_INST") =>
            /\ rPC = instPC + 2 * lastOp.arg
            /\ rINST = Insns(DexPcOf(instPC) + lastOp.arg)
    /\ (Completed /\ lastOp.op = "FETCH_ADVANCE_INST_RB") =>
            /\ rPC = instPC + lastOp.arg
            /\ rINST = Insns(DexPcOf(instPC) + lastOp.arg \div 2)

\* C5 witness: a FETCH_ADVANCE_INST 2 from the instruction at unit 1.
C5_Witness ==
    /\ Completed /\ lastOp = Op("FETCH_ADVANCE_INST", 2)
    /\ instPC = UnitAddr(1) /\ rPC = UnitAddr(3) /\ rINST = Insns(3)

\* C6 as stated: with the cursor at unit 0 of [0x1234, 0x5678, 0x9ABC],
\* fetchAdvance(1) returns 0x1234 and leaves the cursor at unit 1.
C6_FetchAdvanceReturnsUnit0 ==
    (Completed /\ lastOp = Op("FETCH_ADVANCE_INST", 1)
               /\ instPC = UnitAddr(0)) =>
        /\ rINST = 4660
        /\ rPC = UnitAddr(1)

\* C6 amended: with the cursor at unit 0 of [0x1234, 0x5678, 0x9ABC],
\* fetchAdvance(1) returns 0x5678 and leaves the cursor at unit 1, and every
\* subsequent fetch() without an advance returns 0x5678 and leaves the
\* cursor at unit 1.
C6_FetchAdvanceReturnsUnit1 ==
    /\ []((Completed /\ lastOp = Op("FETCH_ADVANCE_INST", 1)
                     /\ instPC = UnitAddr(0)) =>
                (rINST = 22136 /\ rPC = UnitAddr(1)))
    /\ []((Completed /\ lastOp.op = "FETCH_INST" /\ rPC = UnitAddr(1)) =>
                rINST = 22136)
    /\ [][(FETCH_INST /\ rPC = UnitAddr(1)) =>
                (rINST' = 22136 /\ rPC' = UnitAddr(1))]_vars

\* C6 witness: a fetch() has run after the fetchAdvance(1) from unit 0, with
\* the cursor still at unit 1 and the instruction not yet dispatched.
C6_Witness ==
    /\ Completed /\ lastOp.op = "FETCH_INST"
    /\ instPC = UnitAddr(0) /\ rPC = UnitAddr(1) /\ phase = "decode"
    /\ rINST = 22136

\* C9: exportPC is idempotent.  Right after an EXPORT_PC, another EXPORT_PC
\* can change no variable at all; and an EXPORT_DEX_PC run right after an
\* EXPORT_DEX_PC ends with exportedPC, exportedPCPointer and its scratch
\* register as the first one left them.
C9_ExportIdempotent ==
    /\ (Completed /\ lastOp.op = "EXPORT_PC" /\ phase = "exec") =>
            ~ENABLED (EXPORT_PC /\ vars' # vars)
    /\ (Completed /\ lastOp.op = "EXPORT_DEX_PC" /\ before # <<>>) =>
            <<dex_pc, dex_pc_ptr, tmp1>> = before

\* C9 witness: a second EXPORT_DEX_PC has completed right after a first one,
\* on an instruction that is not the method's first.
C9_Witness ==
    /\ Completed /\ lastOp.op = "EXPORT_DEX_PC" /\ before # <<>>
    /\ rPC # InsnsBase /\ dex_pc_ptr = rPC

\* C2: whenever a guest exception is raised in the frame, or its handler is
\* inside a collaborator (a suspension point), the PC has been exported since
\* the current instruction was dispatched and before the cursor left it, and
\* the exported pointer designates that instruction.
C2_ExportedBeforeThrowOrSuspend ==
    phase \in {"suspended", "thrown"} =>
        /\ exported
        /\ dex_pc_ptr = instPC
        /\ exportCursor = instPC

\* C2 witness: an exception is raised by an instruction other than the first
\* while rINST already holds a prefetched later instruction.
C2_Witness ==
    /\ phase = "thrown" /\ instPC = UnitAddr(1)
    /\ prefetched = 1 /\ rINST = Insns(2) /\ dex_pc_ptr = UnitAddr(1)

\* The table base a dispatch jumped through: the target less the handler's
\* offset in the table.
DispatchBase == target - ip * 2 ^ HandlerSizeBits

\* C11 as stated: after the thread-owned table pointer changes, every
\* dispatch (GOTO_OPCODE or GOTO_OPCODE_BASE) uses the table base loaded at
\* the last REFRESH_IBASE.
C11_EveryDispatchUsesRefreshedBase ==
    lastOp.op \in {"GOTO_OPCODE", "GOTO_OPCODE_BASE"} =>
        DispatchBase = refreshed

\* C11 amended: a swap of the thread's table pointer never changes rIBASE;
\* rIBASE always holds the pointer read at the last REFRESH_IBASE, every
\* dispatch through GOTO_OPCODE jumps into that table (so the first one after
\* a refresh uses the new table), rIBASE does not change between the decode
\* and the dispatch of an instruction, and a dispatch through
\* GOTO_OPCODE_BASE jumps into the table of the base register it is handed.
C11_SwapObservedOnlyAtRefresh ==
    /\ [](rIBASE = refreshed)
    /\ [](lastOp.op = "GOTO_OPCODE" => DispatchBase = refreshed)
    /\ [](lastOp.op = "GOTO_OPCODE_BASE" => DispatchBase = lastOp.arg)
    /\ [][(threadIBase' # threadIBase) => (rIBASE' = rIBASE)]_vars
    /\ [][(rIBASE' # rIBASE) => REFRESH_IBASE]_vars
    /\ [][(phase \in {"decode", "dispatch"}) => (rIBASE' = rIBASE)]_vars

\* C11 witness: the pointer was swapped to the alternate table and refreshed,
\* then swapped back without a refresh; an instruction has since been
\* dispatched through GOTO_OPCODE into the alternate table.
C11_Witness ==
    /\ lastOp.op = "GOTO_OPCODE"
    /\ refreshed = AltIBase /\ threadIBase = MainIBase
    /\ DispatchBase = AltIBase

\* C14: register writes are read back in program order: values[i] is the
\* value of the most recent setPrimitive or setReference to slot i, get(i)
\* returns it, and when that write was a setPrimitive refShadow[i] is null
\* (so after setReference(i, obj) then setPrimitive(i, v), get(i) = v and
\* refShadow[i] is null).
C14_ReadsBackLastWrite ==
    /\ \A i \in Slots : lastVal[i] # -1 => values(i) = lastVal[i]
    /\ (Completed /\ lastOp.op = "GET_VREG" /\ lastVal[vreg] # -1) =>
            reg = lastVal[vreg]
    /\ (Completed /\ lastOp.op = "GET_VREG" /\ lastWrite[vreg] = "prim") =>
            refShadow(vreg) = 0

\* C14 witness: Scenario A on slot 2, the only slot written so far: a
\* setPrimitive of a value other than the reference has overwritten a live
\* reference, and get(2) has read the new value back.
C14_Witness ==
    /\ Completed /\ lastOp.op = "GET_VREG" /\ vreg = 2
    /\ lastWrite = [i \in Slots |-> IF i = 2 THEN "prim" ELSE "none"]
    /\ hadRef /\ lastVal[2] = 0 /\ reg = 0 /\ refShadow(2) = 0

\* The reading macros: fetch, prefetch and the operand fetches.
ReadingMacro == FETCH_INST \/ PREFETCH_INST \/ FETCH \/ FETCH_S \/ FETCH_B

\* C15: reading never moves the fetch cursor: FETCH_INST, PREFETCH_INST,
\* FETCH, FETCH_S and FETCH_B leave the cursor, the register file and the
\* exported PC unchanged; a fetch() returns the code unit at the cursor, so
\* repeated fetch() calls with no advance in between return the same unit.
C15_ReadingLeavesCursor ==
    /\ [][ReadingMacro =>
            /\ rPC' = rPC
            /\ mem' = mem
            /\ dex_pc' = dex_pc /\ dex_pc_ptr' = dex_pc_ptr]_vars
    /\ [][FETCH_INST => rINST' = Load16(rPC)]_vars
    /\ [][(FETCH_INST /\ lastOp.op = "FETCH_INST") => rINST' = rINST]_vars
    /\ []((Completed /\ lastOp.op \in {"FETCH_INST", "PREFETCH_INST", "FETCH",
                                        "FETCH_S", "FETCH_B"}
                     /\ phase = "exec") => rPC = instPC)

\* C15 witness: the handler of the instruction at unit 1 has exported the PC
\* and fetched again at the cursor: the fetch returned the unit the loop had
\* fetched before, and cursor and exported pointer are where they were.
C15_Witness ==
    /\ Completed /\ lastOp.op = "FETCH_INST" /\ phase = "exec"
    /\ instPC = UnitAddr(1) /\ rPC = UnitAddr(1) /\ rINST = 22136
    /\ exported /\ dex_pc_ptr = UnitAddr(1)

\* Cursor and instruction word after FETCH_ADVANCE_INST count from cursor p.
Fused(p, count) == <<p + 2 * count, Load16(p + 2 * count)>>

\* C16: ADVANCE count moves the cursor by count code units and leaves the
\* instruction word as it was; and from the cursor of any instruction,
\* PREFETCH_INST count followed by ADVANCE count, and ADVANCE count followed
\* by FETCH_INST, end with the cursor and the instruction word that
\* FETCH_ADVANCE_INST count (or PREFETCH_ADVANCE_INST rINST, rPC, count)
\* ends with.
C16_SplitFormsEqualFused ==
    /\ [][ADVANCE => rINST' = rINST]_vars
    /\ []((Completed /\ lastOp.op = "ADVANCE") =>
                rPC = instPC + 2 * lastOp.arg)
    /\ []((Completed /\ lastOp.op \in {"FETCH_ADVANCE_INST",
                                        "PREFETCH_ADVANCE_INST"}) =>
                <<rPC, rINST>> = Fused(instPC, lastOp.arg))
    /\ []((Completed /\ lastOp.op = "ADVANCE" /\ phase = "decode") =>
                <<rPC, rINST>> = Fused(instPC, lastOp.arg))
    /\ [][(FETCH_INST /\ lastOp.op = "ADVANCE") =>
                <<rPC', rINST'>> = Fused(instPC, lastOp.arg)]_vars
    /\ [][(ADVANCE /\ lastOp.op = "PREFETCH_INST"
                   /\ lastOp'.arg = lastOp.arg) =>
                <<rPC', rINST'>> = Fused(instPC, lastOp.arg)]_vars

\* C16 witness: PREFETCH_INST 2 and then ADVANCE 2 from the instruction at
\* unit 1; the loop goes on to decode the prefetched word at unit 3.
C16_Witness ==
    /\ Completed /\ lastOp = Op("ADVANCE", 2) /\ phase = "decode"
    /\ instPC = UnitAddr(1) /\ rPC = UnitAddr(3) /\ rINST = Insns(3)

\* C17 as stated: every macro of the header emits one machine instruction
\* and is a single atomic step, so that no state lies between two
\* instructions of a macro and no (value, shadow) pair is ever seen with
\* only the first store of a register write done.
C17_EveryMacroIsOneInstruction ==
    /\ mpc = "idle"
    /\ \A i \in Slots : ~Torn(i)

\* C18: after any sequence of completed setPrimitive, setReference and
\* clearShadowPair operations, every slot whose refShadow is non-null has
\* values[i] equal to refShadow[i]: the shadow array never reports as a root
\* a reference that differs from the slot's value.
C18_ShadowEqualsValue ==
    Completed =>
        \A i \in Slots : refShadow(i) # 0 => values(i) = refShadow(i)

\* C18 witness: one slot holds a live reference with an equal shadow, one
\* holds a non-zero primitive with a null shadow, and one still holds the
\* bits of a reference whose shadow a clearShadowPair has nulled.
C18_Witness ==
    /\ Completed
    /\ \E i, j, k \in Slots :
        /\ lastWrite[i] = "ref" /\ refShadow(i) # 0 /\ values(i) = refShadow(i)
        /\ lastWrite[j] = "prim" /\ values(j) # 0 /\ refShadow(j) = 0
        /\ lastWrite[k] = "clear" /\ values(k) # 0 /\ refShadow(k) = 0
        /\ lastOp.op = "GET_VREG" /\ vreg = i /\ reg = refShadow(i)

\* The instructions of the three register-file writes.
SetStep ==
    \/ SET_VREG_1 \/ SET_VREG_2 \/ SET_VREG_3
    \/ SET_VREG_OBJECT_1 \/ SET_VREG_OBJECT_2
ClearStep ==
    \/ CLEAR_SHADOW_PAIR_1 \/ CLEAR_SHADOW_PAIR_2
    \/ CLEAR_SHADOW_PAIR_3 \/ CLEAR_SHADOW_PAIR_4


\* The register file by itself: the register macros of the header that
\* address or write a slot, on the frame of one executing instruction.
NextSlots == VREG_INDEX_TO_ADDR \/ SetStep \/ ClearStep

SpecSlots == InitExec /\ [][NextSlots]_vars

\* C19: register-file writes touch only their own slot: every instruction
\* of setPrimitive(i, v) and setReference(i, r) leaves values[j] and
\* refShadow[j] unchanged for j # i; every instruction of clearShadowPair(i)
\* leaves all values and every refShadow[j] with j outside {i, i+1}
\* unchanged; none of them moves the cursor or the exported PC; and index 0
\* is addressed like every other index (VREG_INDEX_TO_ADDR yields the address
\* of values[i] for every i).
C19_WritesTouchOwnSlotOnly ==
    /\ [][SetStep =>
            \A j \in Slots : j # vreg' =>
                /\ mem'[VregAddr(j)] = mem[VregAddr(j)]
                /\ mem'[RefAddr(j)] = mem[RefAddr(j)]]_vars
    /\ [][ClearStep =>
            \A j \in Slots :
                /\ mem'[VregAddr(j)] = mem[VregAddr(j)]
                /\ j \notin {vreg', vreg' + 1} =>
                        mem'[RefAddr(j)] = mem[RefAddr(j)]]_vars
    /\ [][(SetStep \/ ClearStep) =>
            (rPC' = rPC /\ dex_pc' = dex_pc /\ dex_pc_ptr' = dex_pc_ptr)]_vars
    /\ []((Completed /\ lastOp.op = "VREG_INDEX_TO_ADDR") =>
                (reg = VregAddr(vreg) /\ reg + 4 * NumRegs = RefAddr(vreg)))

\* C19 witness: a setPrimitive on register 0 has completed while the other
\* two registers hold live references, which are still in place.
C19_Witness ==
    /\ Completed /\ lastOp.op = "SET_VREG" /\ vreg = 0 /\ hadRef
    /\ values(0) = 1 /\ refShadow(0) = 0
    /\ \A j \in Slots \ {0} : values(j) = 1 /\ refShadow(j) = 1

\* C20: EXPORT_DEX_PC stores a consistent pair: with the cursor at code unit
\* k, byte address codeItem + insnsOffset + 2k, it leaves exportedPCPointer
\* equal to the cursor address and exportedPC equal to k, for every k of the
\* instruction array.  The cursor is always an even number of bytes from the
\* array base, so the byte distance the macro computes is even, not
\* negative, and the arithmetic shift halves it without loss.
C20_ExportDexPcConsistentPair ==
    /\ rPC \in CodeAddrs
    /\ (rPC - (CodeItemAddr + CODEITEM_INSNS_OFFSET)) % 2 = 0
    /\ mpc = "EXPORT_DEX_PC_4" => tmp1 = CodeItemAddr + CODEITEM_INSNS_OFFSET
    /\ mpc = "EXPORT_DEX_PC_5" =>
            /\ tmp1 = rPC - (CodeItemAddr + CODEITEM_INSNS_OFFSET)
            /\ tmp1 >= 0 /\ tmp1 % 2 = 0
    /\ mpc = "EXPORT_DEX_PC_6" => (2 * tmp1 = rPC - InsnsBase /\ tmp1 \in Units)
    /\ (Completed /\ lastOp.op = "EXPORT_DEX_PC") =>
            /\ dex_pc \in Units
            /\ rPC = CodeItemAddr + CODEITEM_INSNS_OFFSET + 2 * dex_pc
            /\ dex_pc_ptr = rPC
            /\ Insns(dex_pc) = Load16(dex_pc_ptr)

\* C20 witness: EXPORT_DEX_PC has completed with the cursor on the last code
\* unit of the method.
C20_Witness ==
    /\ Completed /\ lastOp.op = "EXPORT_DEX_PC"
    /\ rPC = UnitAddr(CodeLen - 1) /\ dex_pc = CodeLen - 1
    /\ dex_pc_ptr = CodeItemAddr + CODEITEM_INSNS_OFFSET + 2 * (CodeLen - 1)

\* Decode and dispatch of one arbitrary 16-bit instruction word: the loop
\* stands in front of GET_INST_OPCODE with any word in rINST and either
\* handler table in rIBASE.
InitDispatch ==
    /\ mem = [a \in FrameAddrs |-> IF a = PastFrame THEN MaxVal ELSE 0]
    /\ reg = 0 /\ vreg = 0 /\ tmp1 = 0 /\ tmp2 = 0
    /\ mpc = "idle"
    /\ rPC = InsnsBase /\ rINST \in 0 .. 65535 /\ ip = 0 /\ target = 0
    /\ rIBASE \in {MainIBase, AltIBase} /\ threadIBase = rIBASE
    /\ refreshed = rIBASE
    /\ dex_pc = 0 /\ dex_pc_ptr = 0
    /\ phase = "decode" /\ instPC = InsnsBase /\ exported = FALSE
    /\ prefetched = 0
    /\ lastWrite = [i \in Slots |-> "none"]
    /\ lastVal = [i \in Slots |-> -1]
    /\ lastOp = Op("FETCH_INST", 0)
    /\ hadRef = FALSE
    /\ exportCursor = 0 /\ exportDexCursor = 0 /\ before = <<>>
    /\ scan = "none"
    /\ callers = <<>> /\ trace = <<>>
    /\ sharedHeld = FALSE /\ dumpPc = "out" /\ os = <<>>

NextDispatch == GET_INST_OPCODE \/ GOTO_OPCODE

SpecDispatch == InitDispatch /\ [][NextDispatch]_vars

\* The handler table at base b: 256 entries, one every 2^handler_size_bits
\* bytes.
HandlerEntry(b, k) == b + k * 2 ^ HandlerSizeBits
TableEnd(b) == b + 256 * 2 ^ HandlerSizeBits

\* C7: for every 16-bit instruction word w the dispatch target is
\* tableBase + (w mod 256) * 2^strideBits, the entry of exactly one of the
\* 256 handlers and inside the table; opcodes 0x00 and 0xFF resolve to
\* distinct entries exactly 255 strides apart.
C7_DispatchTotalInjective ==
    /\ (lastOp.op = "GOTO_OPCODE") =>
            /\ target = rIBASE + (rINST % 256) * 2 ^ HandlerSizeBits
            /\ target >= rIBASE
            /\ target + 2 ^ HandlerSizeBits <= TableEnd(rIBASE)
            /\ \A k \in 0 .. 255 :
                    (HandlerEntry(rIBASE, k) = target) <=> (k = rINST % 256)
    /\ GotoTarget(rIBASE, GetOpcode(255)) - GotoTarget(rIBASE, GetOpcode(0))
            = 255 * 2 ^ HandlerSizeBits
    /\ GotoTarget(rIBASE, GetOpcode(255)) < TableEnd(rIBASE)

\* C7 witness: a word whose high byte is not zero and whose opcode byte is
\* 0xFF has been dispatched to the last entry of the table.
C7_Witness ==
    /\ lastOp.op = "GOTO_OPCODE" /\ rINST = 4863
    /\ target = HandlerEntry(rIBASE, 255)

\* One frame seen whole: the program-counter tracker, the dispatch and the
\* register reads and writes of the handlers, from method entry onwards.
NextFrame ==
    \/ EXPORT_PC
    \/ EXPORT_DEX_PC_1 \/ EXPORT_DEX_PC_2 \/ EXPORT_DEX_PC_3
    \/ EXPORT_DEX_PC_4 \/ EXPORT_DEX_PC_5 \/ EXPORT_DEX_PC_6
    \/ FETCH_INST \/ FETCH_ADVANCE_INST \/ ADVANCE
    \/ FETCH
    \/ GET_INST_OPCODE \/ GOTO_OPCODE
    \/ GET_VREG
    \/ SET_VREG_1 \/ SET_VREG_2 \/ SET_VREG_3
    \/ SET_VREG_OBJECT_1 \/ SET_VREG_OBJECT_2

SpecFrame == Init /\ [][NextFrame]_vars

\* C8 as stated: in every reachable state exportedPC and exportedPCPointer
\* both equal the cursor value at the most recent export call.
C8_BothFieldsEqualLastExportCursor ==
    (Completed /\ exportCursor # 0) =>
        /\ dex_pc_ptr = exportCursor
        /\ UnitAddr(dex_pc) = exportCursor

\* C8 amended: exportedPC and exportedPCPointer are changed only by the
\* export macros (fetch, fetchAdvance, advance, operand fetches, register
\* reads and writes and dispatch leave both unchanged); exportedPCPointer
\* equals the cursor at the most recent EXPORT_PC or EXPORT_DEX_PC, and
\* exportedPC equals the logical offset of the cursor at the most recent
\* EXPORT_DEX_PC (its initial value if there was none), even when the live
\* cursor has since moved.
C8_ExportedFieldsLagBehindCursor ==
    /\ [](Completed =>
            /\ exportCursor # 0 => dex_pc_ptr = exportCursor
            /\ exportCursor = 0 => dex_pc_ptr = 0
            /\ exportDexCursor # 0 => UnitAddr(dex_pc) = exportDexCursor
            /\ exportDexCursor = 0 => dex_pc = 0)
    /\ [][(dex_pc_ptr' # dex_pc_ptr) => (EXPORT_PC \/ EXPORT_DEX_PC_2)]_vars
    /\ [][(dex_pc' # dex_pc) => EXPORT_DEX_PC_6]_vars

\* C8 witness: the cursor has moved on, and a register has been written,
\* since an EXPORT_DEX_PC on a later instruction and a yet later EXPORT_PC;
\* the two exported fields lag behind the cursor, each by its own distance.
C8_Witness ==
    /\ Completed /\ lastOp.op = "SET_VREG"
    /\ exportDexCursor = UnitAddr(1) /\ dex_pc = 1
    /\ exportCursor = UnitAddr(2) /\ dex_pc_ptr = UnitAddr(2)
    /\ rPC = UnitAddr(3)

\* ------------------------------------------------ call stack and unwinding
\* GetDexPC of a shadow frame: the exported pointer converted to an
\* instruction offset into the insns array; dex_pc_ is read only while no
\* pointer has been exported.
GetDexPC(dp, ptr) == IF ptr = 0 THEN dp ELSE DexPcOf(ptr)

\* What the stack keeps of a frame while its callee runs.
SavedFrame ==
    [dex_pc |-> dex_pc, dex_pc_ptr |-> dex_pc_ptr, rPC |-> rPC,
     exportDexCursor |-> exportDexCursor]

\* The handler invokes an interpreted method: a collaborator call, made after
\* the export it requires.  The callee's frame is linked to the caller's and
\* starts at its method's first code unit with nothing exported.
Invoke ==
    /\ Idle /\ phase = "exec"
    /\ exported
    /\ Len(callers) < MaxDepth - 1
    /\ callers' = <<SavedFrame>> \o callers
    /\ rPC' = InsnsBase /\ instPC' = InsnsBase
    /\ dex_pc' = 0 /\ dex_pc_ptr' = 0
    /\ exportCursor' = 0 /\ exportDexCursor' = 0 /\ before' = <<>>
    /\ exported' = FALSE /\ prefetched' = 0
    /\ phase' = "fetch"
    /\ lastOp' = Op("Invoke", 0)
    /\ UNCHANGED <<rINST, ip, target, mpc, trace, sharedHeld, dumpPc, os>>
    /\ UNCHANGED <<rIBASE, threadIBase, refreshed, scan>>
    /\ UNCHANGED regFile

\* The callee returns: its frame is unlinked and the caller's handler goes
\* on from the invoke instruction it had exported.
Return ==
    /\ Idle /\ phase = "exec"
    /\ callers # <<>>
    /\ callers' = Tail(callers)
    /\ rPC' = Head(callers).rPC /\ instPC' = Head(callers).rPC
    /\ dex_pc' = Head(callers).dex_pc
    /\ dex_pc_ptr' = Head(callers).dex_pc_ptr
    /\ exportCursor' = Head(callers).dex_pc_ptr
    /\ exportDexCursor' = Head(callers).exportDexCursor
    /\ before' = <<>>
    /\ exported' = TRUE /\ prefetched' = 0
    /\ lastOp' = Op("Return", 0)
    /\ UNCHANGED <<rINST, ip, target, mpc, phase, trace, sharedHeld, dumpPc, os>>
    /\ UNCHANGED <<rIBASE, threadIBase, refreshed, scan>>
    /\ UNCHANGED regFile

\* The exception subsystem unwinds the innermost frame, which has no handler
\* for the exception: it records the frame's dex pc in the trace, tears the
\* frame down and goes on with the frame its link_ names, if there is one.
Unwind ==
    /\ phase = "thrown"
    /\ trace' = Append(trace,
                       [entry |-> GetDexPC(dex_pc, dex_pc_ptr),
                        dex_pc |-> dex_pc, dex_pc_ptr |-> dex_pc_ptr,
                        depth |-> Len(callers)])
    /\ IF callers = <<>>
       THEN /\ phase' = "uncaught"
            /\ UNCHANGED <<callers, rPC, instPC, dex_pc, dex_pc_ptr,
                           exportCursor, exportDexCursor>>
       ELSE /\ phase' = "thrown"
            /\ callers' = Tail(callers)
            /\ rPC' = Head(callers).rPC /\ instPC' = Head(callers).rPC
            /\ dex_pc' = Head(callers).dex_pc
            /\ dex_pc_ptr' = Head(callers).dex_pc_ptr
            /\ exportCursor' = Head(callers).dex_pc_ptr
            /\ exportDexCursor' = Head(callers).exportDexCursor
    /\ lastOp' = Op("Unwind", 0)
    /\ UNCHANGED <<rINST, ip, target, mpc, before, exported, prefetched>>
    /\ UNCHANGED <<sharedHeld, dumpPc, os>>
    /\ UNCHANGED <<rIBASE, threadIBase, refreshed, scan>>
    /\ UNCHANGED regFile

\* A call stack of interpreted frames: every frame exports, fetches and
\* dispatches with the macros, invokes and returns, and an exception raised
\* in the innermost frame finds no handler.
NextStack ==
    \/ EXPORT_PC
    \/ EXPORT_DEX_PC_1 \/ EXPORT_DEX_PC_2 \/ EXPORT_DEX_PC_3
    \/ EXPORT_DEX_PC_4 \/ EXPORT_DEX_PC_5 \/ EXPORT_DEX_PC_6
    \/ FETCH_INST \/ FETCH_ADVANCE_INST
    \/ GET_INST_OPCODE \/ GOTO_OPCODE
    \/ Invoke \/ Return \/ Throw \/ Unwind

SpecStack == Init /\ [][NextStack]_vars

AssertSharedHeld(held) == held

\* What rhs.Dump(os) reads: the dex pc of the thread's innermost frame.
DumpedState == GetDexPC(dex_pc, dex_pc_ptr)

\* The calling thread acquires the mutator lock in shared mode.
SharedLock ==
    /\ dumpPc = "out" /\ ~sharedHeld
    /\ sharedHeld' = TRUE
    /\ UNCHANGED <<callers, trace, dumpPc, os>>
    /\ UNCHANGED <<rIBASE, threadIBase, refreshed, phase, instPC, exported,
                   prefetched, scan>>
    /\ UNCHANGED <<mpc, lastOp>>
    /\ UNCHANGED pcState /\ UNCHANGED regFile

\* The calling thread releases its shared hold.
SharedUnlock ==
    /\ dumpPc = "out" /\ sharedHeld
    /\ sharedHeld' = FALSE
    /\ UNCHANGED <<callers, trace, dumpPc, os>>
    /\ UNCHANGED <<rIBASE, threadIBase, refreshed, phase, instPC, exported,
                   prefetched, scan>>
    /\ UNCHANGED <<mpc, lastOp>>
    /\ UNCHANGED pcState /\ UNCHANGED regFile

\* Mutant of the operator's first statement: the assertion is left out and
\* control falls through to the Dump call.
OperatorShl_Assert_Omitted ==
    /\ dumpPc = "out"
    /\ Len(os) < MaxDumps
    /\ dumpPc' = "asserted"
    /\ UNCHANGED <<callers, trace, sharedHeld, os>>
    /\ UNCHANGED <<rIBASE, threadIBase, refreshed, phase, instPC, exported,
                   prefetched, scan>>
    /\ UNCHANGED <<mpc, lastOp>>
    /\ UNCHANGED pcState /\ UNCHANGED regFile

\* Locks::mutator_lock_->AssertSharedHeld(Thread::Current());
OperatorShl_Assert ==
    /\ dumpPc = "out"
    /\ Len(os) < MaxDumps
    /\ dumpPc' = IF AssertSharedHeld(sharedHeld) THEN "asserted" ELSE "aborted"
    /\ UNCHANGED <<callers, trace, sharedHeld, os>>
    /\ UNCHANGED <<rIBASE, threadIBase, refreshed, phase, instPC, exported,
                   prefetched, scan>>
    /\ UNCHANGED <<mpc, lastOp>>
    /\ UNCHANGED pcState /\ UNCHANGED regFile

\* rhs.Dump(os);
OperatorShl_Dump ==
    /\ dumpPc = "asserted"
    /\ os' = Append(os, [data |-> DumpedState, held |-> sharedHeld])
    /\ dumpPc' = "dumped"
    /\ UNCHANGED <<callers, trace, sharedHeld>>
    /\ UNCHANGED <<rIBASE, threadIBase, refreshed, phase, instPC, exported,
                   prefetched, scan>>
    /\ UNCHANGED <<mpc, lastOp>>
    /\ UNCHANGED pcState /\ UNCHANGED regFile

\* return os;
OperatorShl_Return ==
    /\ dumpPc = "dumped"
    /\ dumpPc' = "out"
    /\ UNCHANGED <<callers, trace, sharedHeld, os>>
    /\ UNCHANGED <<rIBASE, threadIBase, refreshed, phase, instPC, exported,
                   prefetched, scan>>
    /\ UNCHANGED <<mpc, lastOp>>
    /\ UNCHANGED pcState /\ UNCHANGED regFile

\* A thread that dumps a frame under the mutator lock while the frame's
\* method is being interpreted.
NextDump ==
    \/ EXPORT_PC
    \/ FETCH_INST \/ FETCH_ADVANCE_INST
    \/ GET_INST_OPCODE \/ GOTO_OPCODE
    \/ SharedLock \/ SharedUnlock
    \/ OperatorShl_Assert \/ OperatorShl_Dump \/ OperatorShl_Return

SpecDump == Init /\ [][NextDump]_vars

\* C13: a mutator-locked dump reads the dumped state only after asserting
\* that the current thread holds the mutator lock in shared mode: every Dump
\* call is preceded by the assertion, the thread holds the lock shared from
\* the assertion until the operator returns, no Dump has run without the
\* shared hold, and a thread that fails the assertion never reaches Dump.
C13_DumpOnlyAfterSharedHeldAssert ==
    /\ [](dumpPc \in {"asserted", "dumped"} => sharedHeld)
    /\ [](\A n \in 1 .. Len(os) : os[n].held)
    /\ [](dumpPc = "aborted" => ~sharedHeld)
    /\ [][(os' # os) => (dumpPc = "asserted" /\ sharedHeld)]_vars
    /\ [][(dumpPc = "aborted") => (os' = os /\ dumpPc' = "aborted")]_vars

\* C13 witness: a second dump has just been written by a thread holding the
\* lock shared; the frame had exported at another instruction since the
\* first dump.
C13_Witness ==
    /\ dumpPc = "dumped" /\ sharedHeld /\ Len(os) = 2
    /\ os[1].data = 1 /\ os[2].data = 3 /\ dex_pc_ptr = UnitAddr(3)

\* The whole: the interpreter thread with its call stack, its collaborators
\* and the thread that dumps its frames.
Next ==
    \/ GET_VREG \/ VREG_INDEX_TO_ADDR
    \/ SET_VREG_1 \/ SET_VREG_2 \/ SET_VREG_3
    \/ SET_VREG_OBJECT_1 \/ SET_VREG_OBJECT_2
    \/ CLEAR_SHADOW_PAIR_1 \/ CLEAR_SHADOW_PAIR_2
    \/ CLEAR_SHADOW_PAIR_3 \/ CLEAR_SHADOW_PAIR_4
    \/ EXPORT_PC
    \/ EXPORT_DEX_PC_1 \/ EXPORT_DEX_PC_2 \/ EXPORT_DEX_PC_3
    \/ EXPORT_DEX_PC_4 \/ EXPORT_DEX_PC_5 \/ EXPORT_DEX_PC_6
    \/ FETCH_INST \/ FETCH_ADVANCE_INST \/ FETCH_ADVANCE_INST_RB
    \/ PREFETCH_ADVANCE_INST \/ PREFETCH_INST \/ ADVANCE
    \/ FETCH \/ FETCH_S \/ FETCH_B
    \/ GET_INST_OPCODE \/ GOTO_OPCODE \/ GOTO_OPCODE_BASE \/ REFRESH_IBASE
    \/ Suspend \/ Scan \/ SwapIBase \/ Resume \/ Throw
    \/ Invoke \/ Return \/ Unwind
    \/ SharedLock \/ SharedUnlock
    \/ OperatorShl_Assert \/ OperatorShl_Dump \/ OperatorShl_Return

Spec == Init /\ [][Next]_vars

====
